---- MODULE Spec2Model ----
(***************************************************************************)
(* Model of compiler/src/constraints/value.rs: the ConstrainedValue sum    *)
(* type, expect_type, from_type, from_other, to_type and Display.          *)
(*                                                                         *)
(* Every value, type and outcome is a record of one fixed shape, so that   *)
(* any two of them can be compared.  A Rust String is a sequence of        *)
(* tokens; the digits of a number are one token each.  A number held by an *)
(* Integer is its sequence of decimal digits, most significant first, so   *)
(* that all five widths keep their real range.                             *)
(***************************************************************************)
EXTENDS Integers, Sequences, FiniteSets, TLC

(* ------------------------------ bounds --------------------------------- *)

\* longest flat array drawn as an input
MaxLen == 3
\* deepest nesting of Mutable / Static / Return wrappers drawn as an input
MaxWrap == 2
\* longest literal text drawn from the alphabet
MaxTextLen == 2
\* order of the (scaled down) prime field F and of the scalar field of G
FieldModulus == 7

(* ------------------------------ strings -------------------------------- *)

Digits == <<"0", "1", "2", "3", "4", "5", "6", "7", "8", "9">>

IsDigitChar(c) == \E i \in 1..10 : Digits[i] = c

DigitOf(c) == (CHOOSE i \in 1..10 : Digits[i] = c) - 1

\* the text of a digit sequence
RECURSIVE DigitsText(_)
DigitsText(ds) ==
    IF ds = <<>> THEN <<>> ELSE <<Digits[Head(ds) + 1]>> \o DigitsText(Tail(ds))

\* the decimal digits of a small natural number
RECURSIVE NatDigits(_)
NatDigits(n) == IF n < 10 THEN <<n>> ELSE Append(NatDigits(n \div 10), n % 10)

(* ------------------------------- types --------------------------------- *)

\* Type<F, G>: elem holds no type, or the one element type of an array
Ty(tag, w, name, elem, dims) ==
    [tag |-> tag, w |-> w, name |-> name, elem |-> elem, dims |-> dims]

Widths == {8, 16, 32, 64, 128}

IntegerType(w) == Ty("IntegerType", w, "", <<>>, <<>>)
FieldElementType == Ty("FieldElement", 0, "", <<>>, <<>>)
GroupElementType == Ty("GroupElement", 0, "", <<>>, <<>>)
BooleanType == Ty("Boolean", 0, "", <<>>, <<>>)
ArrayType(t, dims) == Ty("Array", 0, "", <<t>>, dims)
CircuitType(name) == Ty("Circuit", 0, name, <<>>, <<>>)
SelfType == Ty("SelfType", 0, "", <<>>, <<>>)
NoType == Ty("", 0, "", <<>>, <<>>)

\* Type::next_dimension
next_dimension(t, dimensions) ==
    IF Len(dimensions) > 1 THEN ArrayType(t, Tail(dimensions)) ELSE t

(* ------------------------------- values -------------------------------- *)

\* ConstrainedValue<F, G>
Val(tag, w, n, k, name, circ, txt, kids) ==
    [tag |-> tag, w |-> w, n |-> n, k |-> k, name |-> name, circ |-> circ,
     txt |-> txt, kids |-> kids]

\* Integer::U8 .. Integer::U128 holding the number with decimal digits n
Integer(w, n) == Val("Integer", w, n, 0, "", "", <<>>, <<>>)
\* FieldElement::Constant(k)
FieldElement(k) == Val("FieldElement", 0, <<>>, k, "", "", <<>>, <<>>)
GroupElement(k) == Val("GroupElement", 0, <<>>, k, "", "", <<>>, <<>>)
\* Boolean: k = 0 is false, k = 1 is true, k = 2 is an allocated bit that has
\* no value assigned (get_value() is None)
Boolean(k) == Val("Boolean", 0, <<>>, k, "", "", <<>>, <<>>)
Array(kids) == Val("Array", 0, <<>>, 0, "", "", <<>>, kids)
CircuitDefinition(name) == Val("CircuitDefinition", 0, <<>>, 0, name, "", <<>>, <<>>)
\* ConstrainedCircuitMember(identifier, value)
ConstrainedCircuitMember(name, v) == Val("Member", 0, <<>>, 0, name, "", <<>>, <<v>>)
CircuitExpression(name, members) ==
    Val("CircuitExpression", 0, <<>>, 0, name, "", <<>>, members)
\* Function(optional circuit identifier, function): circ = "" is None
Function(circ, fname) == Val("Function", 0, <<>>, 0, fname, circ, <<>>, <<>>)
Return(kids) == Val("Return", 0, <<>>, 0, "", "", <<>>, kids)
Mutable(v) == Val("Mutable", 0, <<>>, 0, "", "", <<>>, <<v>>)
Static(v) == Val("Static", 0, <<>>, 0, "", "", <<>>, <<v>>)
Unresolved(text) == Val("Unresolved", 0, <<>>, 0, "", "", text, <<>>)
NoValue == Val("", 0, <<>>, 0, "", "", <<>>, <<>>)

(* ------------------------------ outcomes ------------------------------- *)

\* What a call gives: st is "Ok", "Err" (a ValueError returned to the caller)
\* or "Panic" (the call aborts).  An error of kind "CircuitName" carries the
\* expected and the actual name; "ArrayLength" carries the rendered array in
\* msg and the expected length in len; "TypeError" carries the expected type
\* in ty and the rendered value in msg.
Out(st, kind, expected, actual, len, ty, msg, val) ==
    [st |-> st, kind |-> kind, expected |-> expected, actual |-> actual,
     len |-> len, ty |-> ty, msg |-> msg, val |-> val]

Ok == Out("Ok", "", "", "", 0, NoType, <<>>, NoValue)
OkValue(v) == Out("Ok", "", "", "", 0, NoType, <<>>, v)
OkType(t) == Out("Ok", "", "", "", 0, t, <<>>, NoValue)
OkText(text) == Out("Ok", "", "", "", 0, NoType, text, NoValue)
Panic == Out("Panic", "", "", "", 0, NoType, <<>>, NoValue)
Err(kind) == Out("Err", kind, "", "", 0, NoType, <<>>, NoValue)
\* ValueError::ArrayLength(format!("Expected array {:?} to be length {:?}", ..))
ArrayLengthError(arrText, len) ==
    Out("Err", "ArrayLength", "", "", len, NoType, arrText, NoValue)
\* ValueError::CircuitName(expected, actual)
CircuitNameError(expected, actual) ==
    Out("Err", "CircuitName", expected, actual, 0, NoType, <<>>, NoValue)
\* ValueError::TypeError(format!("expected type {}, got {}", _type, value))
TypeErrorOf(t, valueText) ==
    Out("Err", "TypeError", "", "", 0, t, valueText, NoValue)

(* ------------------------------ Display -------------------------------- *)

\* Display for Integer: the decimal text of the number held
IntegerText(v) == DigitsText(v.n)

\* Display for FieldElement<F> and for G: the decimal text of the element
ElementText(v) == DigitsText(NatDigits(v.k))

\* Display (and Debug, which defers to it) for ConstrainedValue
RECURSIVE fmt(_)
RECURSIVE fmt_list(_, _)

\* the loop `for (i, e) in list.iter().enumerate()` writing each element
\* and ", " between two of them; the first element that panics ends it
fmt_list(list, i) ==
    IF i > Len(list) THEN OkText(<<>>)
    ELSE LET e == list[i]
             head == IF e.tag = "Member"
                     THEN LET r == fmt(e.kids[1])
                          IN  IF r.st = "Ok"
                              THEN OkText(<<e.name, ": ">> \o r.msg) ELSE r
                     ELSE fmt(e)
         IN  IF head.st # "Ok" THEN head
             ELSE LET rest == fmt_list(list, i + 1)
                  IN  IF rest.st # "Ok" THEN rest
                      ELSE OkText(head.msg
                                  \o (IF i < Len(list) THEN <<", ">> ELSE <<>>)
                                  \o rest.msg)

\* one element after a prefix
fmt_wrap(prefix, v) ==
    LET r == fmt(v) IN IF r.st = "Ok" THEN OkText(prefix \o r.msg) ELSE r

\* a list between an opening and a closing token
fmt_seq(open, list, close) ==
    LET r == fmt_list(list, 1)
    IN  IF r.st = "Ok" THEN OkText(open \o r.msg \o close) ELSE r

fmt(v) ==
    CASE v.tag = "Integer" -> OkText(IntegerText(v))
      [] v.tag = "FieldElement" -> OkText(ElementText(v))
      [] v.tag = "GroupElement" -> OkText(ElementText(v))
      [] v.tag = "Boolean" ->
            \* value.get_value().unwrap()
            IF v.k = 2 THEN Panic
            ELSE OkText(IF v.k = 1 THEN <<"true">> ELSE <<"false">>)
      [] v.tag = "Array" -> fmt_seq(<<"[">>, v.kids, <<"]">>)
      [] v.tag = "CircuitExpression" ->
            fmt_seq(<<v.name, " {">>, v.kids, <<"}">>)
      [] v.tag = "Return" -> fmt_seq(<<"Program output: [">>, v.kids, <<"]">>)
      [] v.tag = "CircuitDefinition" ->
            \* unimplemented!("cannot return circuit definition in program")
            Panic
      [] v.tag = "Function" -> OkText(<<v.name, "();">>)
      [] v.tag = "Mutable" -> fmt_wrap(<<"mut ">>, v.kids[1])
      [] v.tag = "Static" -> fmt_wrap(<<"static ">>, v.kids[1])
      [] v.tag = "Unresolved" -> OkText(<<"unresolved ">> \o v.txt)

\* {:?} of a Vec<ConstrainedValue>: a bracketed list of the elements' Debug
DebugVec(arr) == fmt_seq(<<"[">>, arr, <<"]">>)

(* ----------------------------- expect_type ----------------------------- *)

\* Integer::expect_type: the width of the integer is the width expected
integer_expect_type(v, w) == IF v.w = w THEN Ok ELSE Err("IntegerError")

\* the catch-all arm (value, _type): the error message renders the value
type_error(v, t) ==
    LET r == fmt(v) IN IF r.st = "Ok" THEN TypeErrorOf(t, r.msg) ELSE Panic

\* the arm of Array against Type::Array when the lengths differ
array_length_error(arr, len) ==
    LET r == DebugVec(arr)
    IN  IF r.st = "Ok" THEN ArrayLengthError(r.msg, len) ELSE Panic

\* circuit_arm with the two names of the error exchanged
circuit_arm_swapped(actual_name, expected_name) ==
    IF expected_name # actual_name
    THEN CircuitNameError(actual_name, expected_name) ELSE Ok

\* the arm of CircuitExpression against Type::Circuit
circuit_arm(actual_name, expected_name) ==
    IF expected_name # actual_name
    THEN CircuitNameError(expected_name, actual_name) ELSE Ok

\* self_arm with its condition inverted
self_arm_inverted(actual_name) ==
    IF "Self" = actual_name THEN Ok ELSE CircuitNameError("Self", actual_name)

\* the arm of CircuitExpression against Type::SelfType
self_arm(actual_name) ==
    IF "Self" = actual_name THEN CircuitNameError("Self", actual_name) ELSE Ok

RECURSIVE expect_type(_, _)
RECURSIVE expect_each(_, _, _)

\* `for value in values { value.expect_type(t)?; }` from element i on
expect_each(values, t, i) ==
    IF i > Len(values) THEN Ok
    ELSE LET r == expect_type(values[i], t)
         IN  IF r.st = "Ok" THEN expect_each(values, t, i + 1) ELSE r

\* array_arm without the comparison of the lengths
array_arm_unchecked_length(arr, t, dimensions) ==
    IF dimensions = <<>> THEN Panic
    ELSE expect_each(arr, next_dimension(t, dimensions), 1)

\* the arm of Array against Type::Array
array_arm(arr, t, dimensions) ==
    IF dimensions = <<>> THEN Panic   \* dimensions[0] is out of bounds
    ELSE IF Len(arr) # dimensions[1]
         THEN array_length_error(arr, dimensions[1])
         ELSE expect_each(arr, next_dimension(t, dimensions), 1)

\* wrapper_arm with the inner result dropped (the `?` left out)
wrapper_arm_dropping(inner, t) ==
    IF expect_type(inner, t).st = "Panic" THEN Panic ELSE Ok

\* the arm of Mutable and of Static
wrapper_arm(inner, t) == expect_type(inner, t)

\* the arm of Return
return_arm(values, t) == expect_each(values, t, 1)

expect_type(v, t) ==
    IF v.tag = "Integer" /\ t.tag = "IntegerType"
    THEN integer_expect_type(v, t.w)
    ELSE IF v.tag = "FieldElement" /\ t.tag = "FieldElement" THEN Ok
    ELSE IF v.tag = "GroupElement" /\ t.tag = "GroupElement" THEN Ok
    ELSE IF v.tag = "Boolean" /\ t.tag = "Boolean" THEN Ok
    ELSE IF v.tag = "Array" /\ t.tag = "Array"
    THEN array_arm(v.kids, t.elem[1], t.dims)
    ELSE IF v.tag = "CircuitExpression" /\ t.tag = "Circuit"
    THEN circuit_arm(v.name, t.name)
    ELSE IF v.tag = "CircuitExpression" /\ t.tag = "SelfType"
    THEN self_arm(v.name)
    ELSE IF v.tag = "Return" THEN return_arm(v.kids, t)
    ELSE IF v.tag = "Mutable" THEN wrapper_arm(v.kids[1], t)
    ELSE IF v.tag = "Static" THEN wrapper_arm(v.kids[1], t)
    ELSE type_error(v, t)

(* ------------------------------ parsing -------------------------------- *)

\* u8::MAX .. u128::MAX in decimal digits
MaxOf(w) ==
    CASE w = 8 -> <<2, 5, 5>>
      [] w = 16 -> <<6, 5, 5, 3, 5>>
      [] w = 32 -> <<4, 2, 9, 4, 9, 6, 7, 2, 9, 5>>
      [] w = 64 -> <<1, 8, 4, 4, 6, 7, 4, 4, 0, 7, 3, 7, 0, 9, 5, 5, 1, 6, 1, 5>>
      [] w = 128 -> <<3, 4, 0, 2, 8, 2, 3, 6, 6, 9, 2, 0, 9, 3, 8, 4, 6, 3, 4,
                      6, 3, 3, 7, 4, 6, 0, 7, 4, 3, 1, 7, 6, 8, 2, 1, 1, 4, 5, 5>>

\* a digit sequence without its leading zeros (the digits of zero are <<0>>)
RECURSIVE Canonical(_)
Canonical(ds) ==
    IF Len(ds) > 1 /\ Head(ds) = 0 THEN Canonical(Tail(ds)) ELSE ds

\* a <= b for canonical digit sequences of the same length
RECURSIVE LexLeq(_, _)
LexLeq(a, b) ==
    IF a = <<>> THEN TRUE
    ELSE IF Head(a) # Head(b) THEN Head(a) < Head(b)
    ELSE LexLeq(Tail(a), Tail(b))

\* a <= b for canonical digit sequences
DigitsLeq(a, b) == Len(a) < Len(b) \/ (Len(a) = Len(b) /\ LexLeq(a, b))

AllDigits(text) == \A i \in 1..Len(text) : IsDigitChar(text[i])

RECURSIVE TextDigits(_)
TextDigits(text) ==
    IF text = <<>> THEN <<>>
    ELSE <<DigitOf(Head(text))>> \o TextDigits(Tail(text))

\* value.parse::<uN>() of the standard library: an optional "+", then one or
\* more digits, the number within the width.  ok says whether it parsed.
parse_uint(text, w) ==
    LET digits == IF text # <<>> /\ Head(text) = "+" THEN Tail(text) ELSE text
    IN  IF digits = <<>> \/ ~AllDigits(digits)
        THEN [ok |-> FALSE, n |-> <<>>]
        ELSE LET n == Canonical(TextDigits(digits))
             IN  IF DigitsLeq(n, MaxOf(w)) THEN [ok |-> TRUE, n |-> n]
                 ELSE [ok |-> FALSE, n |-> <<>>]

\* value.parse::<bool>(): exactly "true" or "false"
parse_bool(text) ==
    IF text = <<"t", "r", "u", "e">> THEN [ok |-> TRUE, k |-> 1]
    ELSE IF text = <<"f", "a", "l", "s", "e">> THEN [ok |-> TRUE, k |-> 0]
    ELSE [ok |-> FALSE, k |-> 0]

\* the number of a digit sequence, reduced modulo the field's order
RECURSIVE ModValue(_, _)
ModValue(ds, acc) ==
    IF ds = <<>> THEN acc
    ELSE ModValue(Tail(ds), (acc * 10 + Head(ds)) % FieldModulus)

\* F::from_str and G::ScalarField::from_str: digits only, not empty, no
\* leading zero except in "0"
field_from_str(text) ==
    IF text = <<>> \/ ~AllDigits(text) \/ (Len(text) > 1 /\ Head(text) = "0")
    THEN [ok |-> FALSE, k |-> 0]
    ELSE [ok |-> TRUE, k |-> ModValue(TextDigits(text), 0)]

\* .unwrap_or_default(): zero when the text did not parse
unwrap_or_default(r) == IF r.ok THEN r.k ELSE 0

(* ------------------------- the calls of a run -------------------------- *)

VARIABLES
    pc,       \* "call": the call is pending; "done": it has returned or aborted
    fn,       \* the function called
    value,    \* the ConstrainedValue argument (self, or `other`)
    type,     \* the Type argument
    text,     \* the String argument
    gdef,     \* G::default(), an element of the group Z_FieldModulus
    result    \* the outcome of the call

vars == <<pc, fn, value, type, text, gdef, result>>

(* ------------------------------ from_type ------------------------------ *)

\* integer_arm with the U128 literal parsed as a u64
integer_arm_narrow(text_, w) ==
    LET r == parse_uint(text_, IF w = 128 THEN 64 ELSE w)
    IN  IF r.ok THEN OkValue(Integer(w, r.n)) ELSE Err("ParseIntError")

\* the arm of Type::IntegerType
integer_arm(text_, w) ==
    LET r == parse_uint(text_, w)
    IN  IF r.ok THEN OkValue(Integer(w, r.n)) ELSE Err("ParseIntError")

\* the arm of Type::FieldElement
field_arm(text_) == OkValue(FieldElement(unwrap_or_default(field_from_str(text_))))

\* the arm of Type::GroupElement: G::default().mul(&scalar)
group_arm(text_) ==
    LET scalar == unwrap_or_default(field_from_str(text_))
        point == (gdef * scalar) % FieldModulus
    IN  OkValue(GroupElement(point))

\* boolean_arm falling back to false as the field arm falls back to zero
boolean_arm_defaulting(text_) == OkValue(Boolean(parse_bool(text_).k))

\* the arm of Type::Boolean
boolean_arm(text_) ==
    LET r == parse_bool(text_)
    IN  IF r.ok THEN OkValue(Boolean(r.k)) ELSE Err("ParseBoolError")

from_type(text_, t) ==
    CASE t.tag = "IntegerType" -> integer_arm(text_, t.w)
      [] t.tag = "FieldElement" -> field_arm(text_)
      [] t.tag = "GroupElement" -> group_arm(text_)
      [] t.tag = "Boolean" -> boolean_arm(text_)
      [] OTHER -> OkValue(Unresolved(text_))

(* ------------------------- to_type, from_other ------------------------- *)

\* Integer::get_type
integer_get_type(v) == IntegerType(v.w)

\* to_type looking through a Mutable or Static around an integer
to_type_unwrapping(v) ==
    CASE v.tag = "Integer" -> OkType(integer_get_type(v))
      [] v.tag = "FieldElement" -> OkType(FieldElementType)
      [] v.tag = "GroupElement" -> OkType(GroupElementType)
      [] v.tag = "Boolean" -> OkType(BooleanType)
      [] v.tag \in {"Mutable", "Static"} /\ v.kids[1].tag = "Integer" ->
            OkType(integer_get_type(v.kids[1]))
      [] OTHER -> Panic

to_type(v) ==
    CASE v.tag = "Integer" -> OkType(integer_get_type(v))
      [] v.tag = "FieldElement" -> OkType(FieldElementType)
      [] v.tag = "GroupElement" -> OkType(GroupElementType)
      [] v.tag = "Boolean" -> OkType(BooleanType)
      [] OTHER -> Panic   \* unimplemented!("to type only implemented for primitives")

\* from_other taking the exemplar for an integer of width 32 always
from_other_fixed_width(text_, other) ==
    LET other_type == to_type(other)
    IN  IF other_type.st = "Panic" THEN Panic
        ELSE from_type(text_, IntegerType(32))

from_other(text_, other) ==
    LET other_type == to_type(other)
    IN  IF other_type.st = "Panic" THEN Panic
        ELSE from_type(text_, other_type.ty)

(* ------------------------------ the inputs ----------------------------- *)

SeqUpTo(S, n) == UNION {[1..m -> S] : m \in 0..n}

Names == {"Point", "Line", "Self"}

\* literal texts: every text over a small alphabet, and the texts at the
\* edges of the five widths and of the boolean parse
Alphabet == {"0", "1", "9", "+", "-", "a"}

SampleTexts ==
    {<<"t", "r", "u", "e">>,
     <<"f", "a", "l", "s", "e">>,
     <<"y", "e", "s">>,
     <<"T", "r", "u", "e">>,
     <<"7">>,
     <<"0", "0", "7">>,
     <<"+", "7">>,
     <<"2", "5", "5">>,
     <<"2", "5", "6">>,
     <<"6", "5", "5", "3", "5">>,
     <<"6", "5", "5", "3", "6">>,
     <<"4", "2", "9", "4", "9", "6", "7", "2", "9", "5">>,
     <<"4", "2", "9", "4", "9", "6", "7", "2", "9", "6">>,
     <<"1", "8", "4", "4", "6", "7", "4", "4", "0", "7", "3", "7", "0", "9", "5", "5", "1", "6", "1", "5">>,
     <<"1", "8", "4", "4", "6", "7", "4", "4", "0", "7", "3", "7", "0", "9", "5", "5", "1", "6", "1", "6">>,
     <<"3", "4", "0", "2", "8", "2", "3", "6", "6", "9", "2", "0", "9", "3", "8", "4", "6", "3", "4", "6", "3", "3", "7", "4", "6", "0", "7", "4", "3", "1", "7", "6", "8", "2", "1", "1", "4", "5", "5">>,
     <<"3", "4", "0", "2", "8", "2", "3", "6", "6", "9", "2", "0", "9", "3", "8", "4", "6", "3", "4", "6", "3", "3", "7", "4", "6", "0", "7", "4", "3", "1", "7", "6", "8", "2", "1", "1", "4", "5", "6">>,
     <<"-", "1">>,
     <<"1", "a">>}

Texts == SeqUpTo(Alphabet, MaxTextLen) \cup SampleTexts

U8(n) == Integer(8, <<n>>)

Primitives ==
    {U8(1), Integer(16, <<1>>), Integer(32, <<7>>), Integer(64, <<7>>),
     Integer(128, <<7>>), FieldElement(3), GroupElement(2),
     Boolean(0), Boolean(1)}

Point == CircuitExpression("Point", <<ConstrainedCircuitMember("x", U8(1)),
                                      ConstrainedCircuitMember("y", Boolean(1))>>)

Circuits ==
    {CircuitExpression(name, <<>>) : name \in Names}
    \cup {Point,
          CircuitExpression("Line", <<ConstrainedCircuitMember("a", Point)>>),
          CircuitExpression("Self", <<ConstrainedCircuitMember(
                                        "d", CircuitDefinition("Point"))>>)}

Others ==
    {CircuitDefinition("Point"), Function("", "main"), Function("Point", "new"),
     Unresolved(<<"5">>)}

\* arrays of up to MaxLen elements that are not arrays
ArrayLeaves == {U8(1), Integer(16, <<1>>), CircuitDefinition("Point")}
FlatArrays == {Array(s) : s \in SeqUpTo(ArrayLeaves, MaxLen)}

\* arrays of arrays, regular and jagged
InnerArrays == {Array(s) : s \in SeqUpTo({U8(1)}, MaxLen)} \cup {U8(1)}
NestedArrays == {Array(s) : s \in SeqUpTo(InnerArrays, 2)}

SampleArrays ==
    {Array(<<U8(1), U8(2), U8(3)>>),
     Array(<<Array(<<U8(1), U8(2)>>), Array(<<U8(3), U8(4)>>)>>),
     Array(<<Array(<<U8(1), U8(2)>>), Array(<<U8(3), Integer(16, <<4>>)>>)>>),
     Array(<<Array(<<U8(1), CircuitDefinition("Point")>>), Array(<<U8(3)>>)>>),
     Array(<<Mutable(U8(1)), Static(U8(2))>>),
     Array(<<Point, Point>>)}

Unwrapped ==
    Primitives \cup Circuits \cup Others \cup FlatArrays \cup NestedArrays
    \cup SampleArrays

\* the values put into wrappers
WrapBase ==
    {U8(1), Integer(16, <<1>>), Boolean(1), Point,
     CircuitDefinition("Point"), Unresolved(<<"5">>),
     Array(<<U8(1), U8(1)>>), Array(<<U8(1), Integer(16, <<1>>)>>),
     Array(<<Array(<<U8(1), U8(1)>>), Array(<<U8(1)>>)>>)}

RECURSIVE Wrapped(_)
Wrapped(d) ==
    IF d = 0 THEN WrapBase
    ELSE LET inner == Wrapped(d - 1)
         IN  inner \cup {Mutable(v) : v \in inner} \cup {Static(v) : v \in inner}
             \cup {Return(s) : s \in SeqUpTo(
                       {U8(1), Integer(16, <<1>>), CircuitDefinition("Point")}, 2)}
             \cup {Return(<<v>>) : v \in inner}
             \cup {Return(<<U8(1), v>>) : v \in inner}

Values == Unwrapped \cup Wrapped(MaxWrap)

\* allocated bits that have no value assigned, as the renderer meets them
Unassigned == {Boolean(2), Mutable(Boolean(2)), Array(<<Boolean(1), Boolean(2)>>)}

PrimitiveTypes ==
    {IntegerType(w) : w \in Widths}
    \cup {FieldElementType, GroupElementType, BooleanType}

ElementTypes == {IntegerType(8), ArrayType(IntegerType(8), <<2>>)}

DimLists == SeqUpTo(2..(MaxLen + 1), 2)

ArrayTypes == {ArrayType(t, dims) : t \in ElementTypes, dims \in DimLists}

Types ==
    PrimitiveTypes \cup {CircuitType(name) : name \in Names} \cup {SelfType}
    \cup ArrayTypes

\* the exemplars handed to from_other
Exemplars ==
    Primitives \cup Others
    \cup {Point, Array(<<U8(1)>>), Mutable(U8(1)), Static(Boolean(1)),
          Mutable(Static(U8(1))), Return(<<U8(1)>>)}

\* G::default(): the identity, or the generator
GroupDefaults == {0, 1}

NoResult == Out("", "", "", "", 0, NoType, <<>>, NoValue)

(* ---------------------------- the state machine ------------------------ *)

Init ==
    /\ pc = "call"
    /\ result = NoResult
    /\ \/ /\ fn = "expect_type"
          /\ value \in Values /\ type \in Types /\ text = <<>> /\ gdef = 0
       \/ /\ fn = "from_type"
          /\ value = NoValue /\ type \in Types /\ text \in Texts
          /\ gdef \in GroupDefaults
       \/ /\ fn = "from_other"
          /\ value \in Exemplars /\ type = NoType /\ text \in Texts
          /\ gdef \in GroupDefaults
       \/ /\ fn = "to_type"
          /\ value \in Values /\ type = NoType /\ text = <<>> /\ gdef = 0
       \/ /\ fn = "fmt"
          /\ value \in Values \cup Unassigned
          /\ type = NoType /\ text = <<>> /\ gdef = 0

Return_(r) ==
    /\ pc' = "done"
    /\ result' = r
    /\ UNCHANGED <<fn, value, type, text, gdef>>

\* self.expect_type(&_type)
ExpectType == pc = "call" /\ fn = "expect_type" /\ Return_(expect_type(value, type))

\* ConstrainedValue::from_type(value, &_type)
FromType == pc = "call" /\ fn = "from_type" /\ Return_(from_type(text, type))

\* ConstrainedValue::from_other(value, &other)
FromOther == pc = "call" /\ fn = "from_other" /\ Return_(from_other(text, value))

\* self.to_type()
ToType == pc = "call" /\ fn = "to_type" /\ Return_(to_type(value))

\* format!("{}", self)
Display == pc = "call" /\ fn = "fmt" /\ Return_(fmt(value))

Next == ExpectType \/ FromType \/ FromOther \/ ToType \/ Display

Spec == Init /\ [][Next]_vars

(* ------------------------------ properties ----------------------------- *)

Done(f) == pc = "done" /\ fn = f

PrimitiveTags == {"Integer", "FieldElement", "GroupElement", "Boolean"}
WrapperTags == {"Mutable", "Static", "Return"}

U8Array123 == Array(<<U8(1), U8(2), U8(3)>>)
U8Array1234 == Array(<<Array(<<U8(1), U8(2)>>), Array(<<U8(3), U8(4)>>)>>)

\* the type the elements of an array of type t are checked against
NextLevel(t) ==
    IF Len(t.dims) = 1 THEN t.elem[1] ELSE ArrayType(t.elem[1], Tail(t.dims))

\* C1: an Array value is accepted by Array{T, dims}, dims not empty, if and
\* only if its length is dims[0] and every element is accepted by the next
\* dimension level (T for one dimension, Array{T, tail(dims)} otherwise);
\* [[1,2],[3,4]] is accepted by Array{U8,[2,2]} and rejected by
\* Array{U8,[2,3]}, [1,2,3] is accepted by Array{U8,[3]} and rejected by
\* Array{U8,[4]}.
C1_ArrayAcceptedIffLengthAndElements ==
    (Done("expect_type") /\ value.tag = "Array" /\ type.tag = "Array"
     /\ type.dims # <<>>)
    => /\ result.st = "Ok"
          <=> /\ Len(value.kids) = type.dims[1]
              /\ \A i \in 1..Len(value.kids) :
                    expect_type(value.kids[i], NextLevel(type)).st = "Ok"
       /\ (value = U8Array1234 /\ type = ArrayType(IntegerType(8), <<2, 2>>))
          => result.st = "Ok"
       /\ (value = U8Array1234 /\ type = ArrayType(IntegerType(8), <<2, 3>>))
          => result.st = "Err"
       /\ (value = U8Array123 /\ type = ArrayType(IntegerType(8), <<3>>))
          => result.st = "Ok"
       /\ (value = U8Array123 /\ type = ArrayType(IntegerType(8), <<4>>))
          => result.st = "Err" /\ result.kind = "ArrayLength"

C1_Witness ==
    /\ Done("expect_type")
    /\ value = U8Array1234
    /\ type = ArrayType(IntegerType(8), <<2, 2>>)
    /\ result.st = "Ok"

\* the pairs of variants that expect_type has an arm for
ListedPair(v, t) ==
    \/ v.tag = "Integer" /\ t.tag = "IntegerType"
    \/ v.tag = "FieldElement" /\ t.tag = "FieldElement"
    \/ v.tag = "GroupElement" /\ t.tag = "GroupElement"
    \/ v.tag = "Boolean" /\ t.tag = "Boolean"
    \/ v.tag = "Array" /\ t.tag = "Array"
    \/ v.tag = "CircuitExpression" /\ t.tag \in {"Circuit", "SelfType"}

\* C2: every pair of a value that is no wrapper and a type that is not one
\* of the listed matching cases gets a TypeMismatch error returned to the
\* caller; the call never aborts instead.
C2_OtherPairsReturnTypeMismatch ==
    (Done("expect_type") /\ ~ListedPair(value, type)
     /\ value.tag \notin WrapperTags)
    => result.st = "Err" /\ result.kind = "TypeError"

\* a value without the Mutable and Static wrappers around it
RECURSIVE Unwrap(_)
Unwrap(v) == IF v.tag \in {"Mutable", "Static"} THEN Unwrap(v.kids[1]) ELSE v

\* C3: Mutable(v) and Static(v), nested to any depth, are checked with
\* exactly the outcome of v; Return(vs) is accepted if and only if every
\* value of vs is accepted by the same type.
C3_WrappersAreTransparent ==
    Done("expect_type")
    => /\ value.tag \in {"Mutable", "Static"}
          => /\ result = expect_type(value.kids[1], type)
             /\ result = expect_type(Unwrap(value), type)
       /\ value.tag = "Return"
          => (result.st = "Ok"
              <=> \A i \in 1..Len(value.kids) :
                     expect_type(value.kids[i], type).st = "Ok")

C3_Witness ==
    /\ Done("expect_type")
    /\ value.tag = "Mutable"
    /\ value.kids[1].tag = "Static"
    /\ Unwrap(value).tag = "Array"
    /\ type.tag = "Array"
    /\ result.st = "Err"
    /\ result.kind = "ArrayLength"

TrueText == <<"t", "r", "u", "e">>
FalseText == <<"f", "a", "l", "s", "e">>

IsParseFailure(r) ==
    r.st = "Err" /\ r.kind \in {"ParseIntError", "ParseBoolError"}

\* the number written by a text of digits, as canonical digits
NumberOf(digits) == Canonical(TextDigits(digits))

\* text is the decimal form of an unsigned integer of 0 .. 2^w - 1
IsDecimalForm(text_, w) ==
    /\ text_ # <<>>
    /\ AllDigits(text_)
    /\ Len(text_) > 1 => Head(text_) # "0"
    /\ DigitsLeq(NumberOf(text_), MaxOf(w))

\* text is an optional "+" and then one or more digits, leading zeros
\* allowed, that write a number of 0 .. 2^w - 1
IsUnsignedLiteral(text_, w) ==
    \E signed \in BOOLEAN :
        LET body == IF signed THEN Tail(text_) ELSE text_
        IN  /\ signed => (text_ # <<>> /\ Head(text_) = "+")
            /\ body # <<>>
            /\ AllDigits(body)
            /\ DigitsLeq(NumberOf(body), MaxOf(w))

\* what from_type gives when it gives no parse failure for a type that is
\* no integer and no boolean
C4_NeverFailsElsewhere ==
    /\ type.tag \notin {"IntegerType", "Boolean"} => result.st = "Ok"
    /\ (type.tag = "FieldElement" /\ ~field_from_str(text).ok)
       => result = OkValue(FieldElement(0))
    /\ (type.tag = "GroupElement" /\ ~field_from_str(text).ok)
       => result = OkValue(GroupElement(0))
    /\ type.tag \in {"Array", "Circuit", "SelfType"}
       => result = OkValue(Unresolved(text))

\* C4 as stated: from_type fails to parse if and only if the type is
\* IntegerType{w} and the text is not the decimal form of an integer of
\* 0 .. 2^w - 1, or the type is Boolean and the text is neither "true" nor
\* "false"; every other call returns a value.
C4_Original ==
    Done("from_type")
    => /\ IsParseFailure(result)
          <=> \/ type.tag = "IntegerType" /\ ~IsDecimalForm(text, type.w)
              \/ type.tag = "Boolean" /\ text \notin {TrueText, FalseText}
       /\ ~IsParseFailure(result) => result.st = "Ok"
       /\ C4_NeverFailsElsewhere

\* C4 (amended): from_type fails to parse if and only if the type is
\* IntegerType{w} and the text is not an optional "+" followed by one or more
\* decimal digits (leading zeros allowed) writing a number of 0 .. 2^w - 1,
\* or the type is Boolean and the text is neither "true" nor "false"; every
\* other call returns a value: zero for an unparsable field or group
\* literal, Unresolved with the text unchanged for every other type.
C4_ParseFailureIffBadLiteral ==
    Done("from_type")
    => /\ IsParseFailure(result)
          <=> \/ type.tag = "IntegerType" /\ ~IsUnsignedLiteral(text, type.w)
              \/ type.tag = "Boolean" /\ text \notin {TrueText, FalseText}
       /\ ~IsParseFailure(result) => result.st = "Ok"
       /\ C4_NeverFailsElsewhere

C4_Witness ==
    /\ Done("from_type")
    /\ type = IntegerType(8)
    /\ text = <<"+", "7">>
    /\ result = OkValue(Integer(8, <<7>>))

\* C5: the decimal text of a number of 0 .. 2^w - 1 resolves against
\* IntegerType{w} to the Integer of width w holding that number; the result
\* is accepted by IntegerType{w}, rejected by every other width, and
\* renders as the text it came from.
C5_IntegerLiteralRoundTrip ==
    (Done("from_type") /\ type.tag = "IntegerType"
     /\ IsDecimalForm(text, type.w))
    => /\ result = OkValue(Integer(type.w, TextDigits(text)))
       /\ \A w \in Widths :
             expect_type(result.val, IntegerType(w)).st
                = IF w = type.w THEN "Ok" ELSE "Err"
       /\ fmt(result.val) = OkText(text)

C5_Witness ==
    /\ Done("from_type")
    /\ type = IntegerType(128)
    /\ text = DigitsText(MaxOf(128))
    /\ result.st = "Ok"
    /\ result.val.w = 128

\* C6: with a primitive exemplar, from_other gives the outcome of from_type
\* for the exemplar's type, and a result it returns is a primitive of the
\* exemplar's type; a width 32 exemplar and the text "7" give the Integer of
\* width 32 holding 7.
C6_FromOtherTakesExemplarType ==
    (Done("from_other") /\ value.tag \in PrimitiveTags)
    => /\ result = from_type(text, to_type(value).ty)
       /\ result.st = "Ok"
          => /\ result.val.tag = value.tag
             /\ result.val.w = value.w
             /\ to_type(result.val) = to_type(value)
       /\ (value.tag = "Integer" /\ value.w = 32 /\ text = <<"7">>)
          => result = OkValue(Integer(32, <<7>>))

C6_Witness ==
    /\ Done("from_other")
    /\ value = Integer(32, <<7>>)
    /\ text = <<"7">>
    /\ result = OkValue(Integer(32, <<7>>))

\* C7: a CircuitExpression is accepted by Circuit{expectedName} if and only
\* if it bears that name, whatever its members; otherwise the error is a
\* CircuitNameMismatch carrying the expected and the actual name.
C7_CircuitNameDecides ==
    (Done("expect_type") /\ value.tag = "CircuitExpression"
     /\ type.tag = "Circuit")
    => /\ result.st = "Ok" <=> value.name = type.name
       /\ value.name # type.name
          => result = CircuitNameError(type.name, value.name)

C7_Witness ==
    /\ Done("expect_type")
    /\ value = Point
    /\ type = CircuitType("Line")
    /\ result.kind = "CircuitName"
    /\ result.expected = "Line"
    /\ result.actual = "Point"

\* C8: to_type returns the type of each of the four primitive variants and
\* aborts for every other variant, a Mutable or Static around a primitive
\* included; from_other with such an exemplar aborts and returns no error.
C8_ToTypeAbortsOffPrimitives ==
    /\ Done("to_type")
       => result = CASE value.tag = "Integer" -> OkType(IntegerType(value.w))
                     [] value.tag = "FieldElement" -> OkType(FieldElementType)
                     [] value.tag = "GroupElement" -> OkType(GroupElementType)
                     [] value.tag = "Boolean" -> OkType(BooleanType)
                     [] OTHER -> Panic
    /\ (Done("from_other") /\ value.tag \notin PrimitiveTags)
       => result = Panic

C8_Witness ==
    /\ Done("to_type")
    /\ value = Mutable(U8(1))
    /\ result = Panic

\* C9: against SelfType a CircuitExpression fails, with a CircuitNameMismatch,
\* exactly when its name is the identifier "Self", and is accepted under
\* every other name.
C9_SelfTypeRejectsOnlySelf ==
    (Done("expect_type") /\ value.tag = "CircuitExpression"
     /\ type.tag = "SelfType")
    => result = IF value.name = "Self"
                THEN CircuitNameError("Self", "Self") ELSE Ok

C9_Witness ==
    /\ Done("expect_type")
    /\ value.tag = "CircuitExpression"
    /\ value.name = "Self"
    /\ type = SelfType
    /\ result.kind = "CircuitName"

\* the first element of an array that its element type does not accept
FirstFailing(arr, t) ==
    CHOOSE i \in 1..Len(arr) :
        /\ expect_type(arr[i], t).st # "Ok"
        /\ \A j \in 1..(i - 1) : expect_type(arr[j], t).st = "Ok"

\* C10: the length of an array is checked before its elements, and the
\* elements in order up to the first failure: an outer length other than
\* dims[0] gives ArrayLengthMismatch whatever the elements are, and a
\* sub-array of the wrong length, no earlier element failing, gives
\* ArrayLengthMismatch too.
C10_LengthCheckedFirst ==
    (Done("expect_type") /\ value.tag = "Array" /\ type.tag = "Array"
     /\ type.dims # <<>>)
    => /\ Len(value.kids) # type.dims[1]
          => result.st = "Err" /\ result.kind = "ArrayLength"
       /\ (/\ Len(value.kids) = type.dims[1]
           /\ result.st # "Ok"
           /\ NextLevel(type).tag = "Array"
           /\ NextLevel(type).dims # <<>>
           /\ LET sub == value.kids[FirstFailing(value.kids, NextLevel(type))]
              IN  sub.tag = "Array" /\ Len(sub.kids) # NextLevel(type).dims[1])
          => result.st = "Err" /\ result.kind = "ArrayLength"

====
